---- MODULE Spec2Model ----
(***************************************************************************)
(* A model of spare_scores/mlp_torch.py: the MLPTorchModel manager (its    *)
(* constructor, set_parameters, fit and predict), the SimpleMLP network,   *)
(* the metrics evaluator get_all_stats and the trial function train that   *)
(* Ray Tune runs under fit.                                                *)
(*                                                                         *)
(* Python values are records [k, n, s]: k is the value's kind, n its       *)
(* number and s its text.  A float is modelled by its integer part n and   *)
(* stands for n + 0.5.  Scores, losses and metrics are integers counted    *)
(* in tenths (Unit = 1.0).                                                 *)
(***************************************************************************)
EXTENDS Integers, Sequences, FiniteSets, TLC

VARIABLES
    kwargs,      \* the keyword arguments given to __init__, in call order
    outcome,     \* how __init__ ended: "pending", "ok", "ValueError", "TypeError"
    self,        \* the manager's attribute dictionary (self.__dict__)
    mdl,         \* self.mdl
    scaler,      \* self.scaler
    param,       \* self.param
    stats,       \* self.stats
    pc,          \* the manager's position: "idle", or "tune" inside tune.run of fit
    df,          \* the table the running fit was called with
    trials,      \* the trials of the running tune.run
    fit_result,  \* what the last fit returned (or that it raised)
    pred_result, \* what the last predict returned (or that it raised)
    hist,        \* the manager calls made so far, each with how it ended
    call,        \* input of the pure function under check (network or metrics)
    ret          \* its result

vars == <<kwargs, outcome, self, mdl, scaler, param, stats, pc, df, trials,
          fit_result, pred_result, hist, call, ret>>

mgrVars == <<kwargs, outcome, self, mdl, scaler, param, stats, pc, df, trials,
             fit_result, pred_result, hist>>

(***************************************************************************)
(* Python values                                                           *)
(***************************************************************************)
IntV(n)    == [k |-> "int",   n |-> n, s |-> ""]
FloatV(n)  == [k |-> "float", n |-> n, s |-> ""]
StrV(s)    == [k |-> "str",   n |-> 0, s |-> s]
NumStrV(n) == [k |-> "numstr", n |-> n, s |-> ""]
BoolV(b)   == [k |-> "bool",  n |-> IF b THEN 1 ELSE 0, s |-> ""]
NoneV      == [k |-> "none",  n |-> 0, s |-> ""]
Unset      == [k |-> "unset", n |-> 0, s |-> ""]

\* int(v): an int, a float (truncated) and a numeric string convert; any other
\* string raises ValueError, None raises TypeError.
IntOf(v) ==
    CASE v.k \in {"int", "float", "numstr", "bool"} -> [exc |-> "none", n |-> v.n]
      [] v.k = "str"  -> [exc |-> "ValueError", n |-> 0]
      [] OTHER        -> [exc |-> "TypeError", n |-> 0]

(***************************************************************************)
(* MLPTorchModel.__init__                                                  *)
(***************************************************************************)
Attrs == {"task", "gpu", "cpu", "bs", "num_epoches", "batch_size",
          "num_epochs", "classification"}

valid_parameters == {"task", "gpu", "cpu", "bs", "num_epoches"}

DefaultGpu       == 1
DefaultCpu       == 1
DefaultBatchSize == 128
DefaultNumEpochs == 100

EmptyDict == [a \in Attrs |-> Unset]

Keys(kw) == {kw[i][1] : i \in 1..Len(kw)}

\* a variant of the test of line 124 that accepts every task
ValidTaskAny(v) == TRUE

\* line 124: the task values __init__ accepts
ValidTask(v) == v \in {StrV("Classification"), StrV("Regression")}

\* try: self.<attr> = int(value)  except ValueError: print(...)
\* A TypeError is not caught and leaves __init__.
TryInt(st, attr, v) ==
    LET r == IntOf(v) IN
    CASE r.exc = "none"       -> [st EXCEPT !.d[attr] = IntV(r.n)]
      [] r.exc = "ValueError" -> st
      [] OTHER                -> [st EXCEPT !.exc = r.exc]

\* The attribute the converted value of each integer option is assigned to
\* (lines 135, 141, 147, 153).
ConvertedAttr(parameter) ==
    CASE parameter = "gpu"         -> "gpu"
      [] parameter = "cpu"         -> "gpu"
      [] parameter = "bs"          -> "batch_size"
      [] parameter = "num_epoches" -> "num_epochs"

\* One pass of the loop of lines 117-157 for one keyword argument.
InitParameter(st, parameter, v) ==
    IF parameter \notin valid_parameters THEN st
    ELSE IF parameter = "task" THEN
        IF ~ValidTask(v) THEN [st EXCEPT !.exc = "ValueError"]
        ELSE [st EXCEPT !.d["task"] = v]
    ELSE LET c == TryInt(st, ConvertedAttr(parameter), v) IN
         IF c.exc # "none" THEN c
         ELSE [c EXCEPT !.d[parameter] = v]          \* line 157

RECURSIVE InitLoop(_, _, _)
InitLoop(st, kw, i) ==
    IF i > Len(kw) \/ st.exc # "none" THEN st
    ELSE InitLoop(InitParameter(st, kw[i][1], kw[i][2]), kw, i + 1)

\* lines 161-174: the defaults, keyed on the names the code tests for
SetDefaults(d, kw) ==
    [a \in Attrs |->
        CASE a = "task"       /\ "task" \notin Keys(kw)       -> StrV("Regression")
          [] a = "gpu"        /\ "gpu" \notin Keys(kw)        -> IntV(DefaultGpu)
          [] a = "cpu"        /\ "cpu" \notin Keys(kw)        -> IntV(DefaultCpu)
          [] a = "batch_size" /\ "batch_size" \notin Keys(kw) -> IntV(DefaultBatchSize)
          [] a = "num_epochs" /\ "num_epochs" \notin Keys(kw) -> IntV(DefaultNumEpochs)
          [] OTHER -> d[a]]

\* line 180
ClassificationOf(d) == d["task"] = StrV("Classification")

\* __init__ as a whole: the attribute dictionary it leaves and how it ended.
\* When it raises no object is returned: the dictionary is the empty one.
InitResult(kw) ==
    LET st == InitLoop([d |-> EmptyDict, exc |-> "none"], kw, 1) IN
    IF st.exc # "none" THEN [d |-> EmptyDict, exc |-> st.exc]
    ELSE LET d1 == SetDefaults(st.d, kw) IN
         [d |-> [d1 EXCEPT !["classification"] = BoolV(ClassificationOf(d1))],
          exc |-> "ok"]

(***************************************************************************)
(* SimpleMLP                                                               *)
(***************************************************************************)
Unit == 10          \* the score 1.0, in tenths
Half == 5           \* the threshold 0.5 of lines 210 and 436, in tenths

\* bool(v) as Python's `if v:` takes it: a non-empty string is true.
Truthy(v) ==
    CASE v.k = "str"    -> v.s # ""
      [] v.k = "numstr" -> TRUE
      [] v.k \in {"int", "float", "bool"} -> v.n # 0
      [] OTHER -> FALSE

\* lines 187-193: the search space.  Dropout is in hundredths, the learning
\* rate in units of 1e-4 (the two ends of loguniform(1e-4, 1e-1)).
HiddenChoices  == {128, 256, 512}
DropoutChoices == {10, 20, 25, 50}
LrChoices      == {1, 1000}
UseBnChoices   == {StrV("False"), StrV("True")}
BnChoices      == {"in", "bn"}

SearchSpace ==
    [hidden_size : HiddenChoices, dropout : DropoutChoices, lr : LrChoices,
     use_bn : UseBnChoices, bn : BnChoices]

\* line 56: the probability the Dropout layer is built with, in hundredths
DropoutBuilt == 20

\* lines 48 and 51: the normalisation layer built for `bn`
NormKind(bn) == IF bn # "bn" THEN "InstanceNorm1d" ELSE "BatchNorm1d"

\* SimpleMLP.__init__ (lines 38-57).  self.dropout is first the argument
\* (line 43) and then the Dropout layer of line 56, which replaces it.
\* A new module is in training mode and holds freshly initialised weights.
SimpleMLP(num_features, hidden_size, classification, dropout, use_bn, bn, w0) ==
    [k |-> "mlp",
     num_features |-> num_features,
     hidden_size |-> hidden_size,
     classification |-> classification,
     use_bn |-> use_bn,
     norm1 |-> NormKind(bn),
     norm2 |-> NormKind(bn),
     dropout_p |-> DropoutBuilt,
     training |-> TRUE,
     weights |-> w0]

\* The network train (line 248) and fit (line 381) build for a configuration:
\* one predictor column, the manager's task flag, the configuration's values
BuildNetwork(cfg, d, w0) ==
    SimpleMLP(1, cfg.hidden_size, Truthy(d["classification"]), cfg.dropout,
              cfg.use_bn, cfg.bn, w0)

\* The layers forward (lines 59-81) sends a batch through, in order.
ForwardLayers(net) ==
    <<"linear1">>
    \o (IF Truthy(net.use_bn) THEN <<net.norm1>> ELSE <<>>)
    \o <<"relu", "dropout">>
    \o <<"linear2">>
    \o (IF Truthy(net.use_bn) THEN <<net.norm2>> ELSE <<>>)
    \o <<"relu", "dropout">>
    \o <<"linear3">>
    \o <<IF net.classification THEN "sigmoid" ELSE "relu">>

\* The value linear3 yields for input x under weights w: the model keeps of the
\* three linear layers that the value is a function of weights and input alone
\* once the module is in evaluation mode (dropout inactive).
Linear(w, x) == (2 * w - 1) * x + w

Relu(z) == IF z > 0 THEN z ELSE 0

\* sigmoid, in tenths: 0.5 at 0, increasing, saturating at 0.0 and 1.0
Sigmoid(z) ==
    CASE z <= -3 -> 0
      [] z = -2  -> 1
      [] z = -1  -> 3
      [] z = 0   -> 5
      [] z = 1   -> 7
      [] z = 2   -> 9
      [] OTHER   -> 10

\* lines 74-81: the terminal activation, one scalar per sample
ForwardOne(net, x) ==
    IF net.classification THEN Sigmoid(Linear(net.weights, x))
    ELSE Unit * Relu(Linear(net.weights, x))

\* forward over a batch X (a sequence of scaled feature values)
Forward(net, X) == [i \in 1..Len(X) |-> ForwardOne(net, X[i])]

\* load_state_dict(state) on a state dict; on None it raises, which the
\* callers test for before they load
LoadStateDict(net, state) ==
    IF "linear1.weight" \in DOMAIN state
    THEN [net EXCEPT !.weights = state["linear1.weight"]]
    ELSE net

\* np.where(y_pred >= 0.5, 1, 0), lines 210 and 436; labels are whole units
Threshold(y_pred) ==
    [i \in 1..Len(y_pred) |-> IF y_pred[i] >= Half THEN Unit ELSE 0]

(***************************************************************************)
(* get_all_stats                                                           *)
(*                                                                         *)
(* A metric is [k, v]: k = "num" with v in thousandths, or k = "nan" (what *)
(* numpy gives for 0/0), or k = "inf" (a positive count over 0).  Labels   *)
(* and scores are in tenths: the label 1 is Unit.                          *)
(***************************************************************************)
Num(v) == [k |-> "num", v |-> v]
NaN    == [k |-> "nan", v |-> 0]
Inf    == [k |-> "inf", v |-> 0]

\* a / b on numpy integers (lines 214-219): no exception on a zero divisor
Div(a, b) ==
    IF b # 0 THEN Num((1000 * a) \div b)
    ELSE IF a = 0 THEN NaN ELSE Inf

RECURSIVE SumTo(_, _)
SumTo(f, n) == IF n = 0 THEN 0 ELSE f[n] + SumTo(f, n - 1)

RECURSIVE ISqrtFrom(_, _)
ISqrtFrom(n, r) == IF (r + 1) * (r + 1) > n THEN r ELSE ISqrtFrom(n, r + 1)
ISqrt(n) == ISqrtFrom(n, 0)

Abs(a) == IF a < 0 THEN -a ELSE a

Values(s) == {s[i] : i \in 1..Len(s)}

\* sklearn's roc_auc_score (line 208): undefined, and a ValueError, when the
\* ground truth holds one class only; else the share of (positive, negative)
\* pairs the scores order rightly, ties counting half.
RocAucScore(y, y_hat) ==
    LET n   == Len(y)
        pos == {i \in 1..n : y[i] = Unit}
        neg == {i \in 1..n : y[i] # Unit}
        gt  == Cardinality({p \in pos \X neg : y_hat[p[1]] > y_hat[p[2]]})
        eq  == Cardinality({p \in pos \X neg : y_hat[p[1]] = y_hat[p[2]]})
    IN  IF Cardinality(Values(y)) # 2 THEN [exc |-> "ValueError", v |-> NaN]
        ELSE [exc |-> "none",
              v |-> Num((1000 * (2 * gt + eq)) \div (2 * Cardinality(pos) * Cardinality(neg)))]

\* confusion_matrix(y, y_hat).ravel() (line 212): the matrix is square over
\* the labels found in y or y_hat, so it unpacks into four only with two labels.
ConfusionMatrix(y, lab) ==
    LET n == Len(y)
        Cnt(a, b) == Cardinality({i \in 1..n : y[i] = a /\ lab[i] = b})
    IN  IF Cardinality(Values(y) \cup Values(lab)) # 2
        THEN [exc |-> "ValueError", tn |-> 0, fp |-> 0, fn |-> 0, tp |-> 0]
        ELSE [exc |-> "none", tn |-> Cnt(0, 0), fp |-> Cnt(0, Unit),
              fn |-> Cnt(Unit, 0), tp |-> Cnt(Unit, Unit)]

\* (sensitivity + specificity) / 2 on floats: nan if either is
Mean2(a, b) ==
    IF a.k = "nan" \/ b.k = "nan" THEN NaN ELSE Num((a.v + b.v) \div 2)

\* 2 * (precision * recall) / (precision + recall) on floats
F1Of(p, r) ==
    IF p.k = "nan" \/ r.k = "nan" THEN NaN
    ELSE IF p.v + r.v = 0 THEN NaN
    ELSE Num((2 * p.v * r.v) \div (p.v + r.v))

ClassificationStats(y_hat, y) ==
    LET auc == RocAucScore(y, y_hat)
        cm  == ConfusionMatrix(y, Threshold(y_hat))
        sensitivity == Div(cm.tp, cm.tp + cm.fn)
        specificity == Div(cm.tn, cm.tn + cm.fp)
        precision   == Div(cm.tp, cm.tp + cm.fp)
        recall      == Div(cm.tp, cm.tp + cm.fn)
    IN  IF auc.exc # "none" THEN [exc |-> auc.exc, dict |-> NoneV]
        ELSE IF cm.exc # "none" THEN [exc |-> cm.exc, dict |-> NoneV]
        ELSE [exc |-> "none",
              dict |-> [Accuracy |-> Div(cm.tp + cm.tn, cm.fp + cm.fn + cm.tp + cm.tn),
                        AUC |-> auc.v,
                        Sensitivity |-> sensitivity,
                        Specificity |-> specificity,
                        BalancedAccuarcy |-> Mean2(sensitivity, specificity),
                        Precision |-> precision,
                        Recall |-> recall,
                        F1 |-> F1Of(precision, recall)]]

\* lines 233-239.  MAE and RMSE are in tenths, R2 in thousandths; r2_score is
\* nan on fewer than two samples, and 1 or 0 on a constant ground truth.
RegressionStats(y_hat, y) ==
    LET n     == Len(y)
        err   == [i \in 1..n |-> y[i] - y_hat[i]]
        mean  == SumTo(y, n) \div n
        ssres == SumTo([i \in 1..n |-> err[i] * err[i]], n)
        sstot == SumTo([i \in 1..n |-> (y[i] - mean) * (y[i] - mean)], n)
    IN  [exc |-> "none",
         dict |-> [MAE  |-> Num(SumTo([i \in 1..n |-> Abs(err[i])], n) \div n),
                   RMSE |-> Num(ISqrt(ssres \div n)),
                   R2   |-> IF n < 2 THEN NaN
                            ELSE IF sstot = 0
                                 THEN (IF ssres = 0 THEN Num(1000) ELSE Num(0))
                            ELSE Num(1000 - (1000 * ssres) \div sstot)]]

\* get_all_stats (lines 196-241): the name-to-value mapping, or the exception
\* that leaves it
get_all_stats(y_hat, y, classification) ==
    IF classification THEN ClassificationStats(y_hat, y)
    ELSE RegressionStats(y_hat, y)

(***************************************************************************)
(* Tables, the train/validation split and the scaler (fit, lines 343-358)  *)
(***************************************************************************)
NRows     == 2                    \* rows of a table
Weights   == {0, 1}               \* the states a network's weights can take
Losses    == {0, 1, 2}            \* validation losses a trial can report
NumTrials == 2                    \* trials of one tune.run (num_samples)
MaxEpochs == 2                    \* largest num_epochs of a tune.run
MaxOps    == 3                    \* manager calls in one behaviour
MaxTrialEpochs == 4               \* largest num_epochs of a trial run alone
MaxResumes     == 2               \* restores of one trial
MaxFits   == 1                    \* fit calls in one behaviour
LifecycleEpochs == 1              \* num_epochs of the managers that are fitted

\* a row: the value of the one predictor column and of the target column
Rows   == {[x |-> 0, y |-> 0], [x |-> 2, y |-> Unit]}
Tables == [1..NRows -> Rows]

ColX(table) == [i \in 1..Len(table) |-> table[i].x]
ColY(table) == [i \in 1..Len(table) |-> table[i].y]

\* train_test_split(test_size=0.2, random_state=42): ceil(0.2 n) rows are held
\* out by a permutation the seed fixes; the model holds out the last rows.
NTest(n)  == (2 * n + 9) \div 10
TrainRows(table) == SubSeq(table, 1, Len(table) - NTest(Len(table)))
ValRows(table)   == SubSeq(table, Len(table) - NTest(Len(table)) + 1, Len(table))

\* StandardScaler().fit(X_train): the column's mean and standard deviation,
\* a zero deviation being replaced by 1
StandardScalerFit(X) ==
    LET n    == Len(X)
        mean == SumTo(X, n) \div n
        var  == SumTo([i \in 1..n |-> (X[i] - mean) * (X[i] - mean)], n) \div n
        sd   == ISqrt(var)
    IN  [k |-> "scaler", mean |-> mean, scale |-> IF sd = 0 THEN 1 ELSE sd]

Transform(sc, X) == [i \in 1..Len(X) |-> (X[i] - sc.mean) \div sc.scale]

(***************************************************************************)
(* train: the function one trial runs (lines 244-323)                      *)
(***************************************************************************)
NoLoss == -1

\* tune.run's ASHAScheduler(max_t=100), line 363
max_t == 100

\* a state dict: the mapping from layer names to tensors, kept to one entry
StateDict(w) == ("linear1.weight" :> w)

NewTrial(cfg, ck) ==
    [status |-> "PENDING", pos |-> "start", config |-> cfg, session_ckpt |-> ck,
     model |-> NoneV, opt |-> 0, start_epoch |-> 0, epoch |-> 0,
     val_loss |-> NoLoss, last_loss |-> NoLoss, checkpoint |-> NoneV,
     iters |-> 0, best |-> NoLoss, cycles |-> 0, resumes |-> 0]

\* train is left: its locals are gone, what the trial reported stays
Ended(tr, status) ==
    [tr EXCEPT !.status = status, !.pos = "return", !.model = NoneV, !.opt = 0,
               !.epoch = 0, !.val_loss = NoLoss]

\* line 271, `for epoch in range(start_epoch, self.num_epochs)`: the next
\* epoch is trained, or the loop is over and train returns (lines 322-323)
LoopTest(tr, d) ==
    IF tr.epoch < d["num_epochs"].n
    THEN [tr EXCEPT !.pos = "train"]
    ELSE Ended(tr, "COMPLETED")

\* a variant of lines 260-268 that ignores the checkpoint's epoch
StartEpochZero(ck) == 0

\* lines 260-268: the epoch train starts at
StartEpoch(ck) == IF ck # NoneV THEN ck.epoch ELSE 0

\* lines 246-271: build the network and the optimizer, restore both from the
\* session's checkpoint when there is one, and enter the loop.  w0 is the
\* random initialisation of the new network.
TrainBegin(tr, d, w0) ==
    LET ck    == tr.session_ckpt
        fresh == BuildNetwork(tr.config, d, w0)
        model == IF ck # NoneV THEN LoadStateDict(fresh, ck.net_state_dict) ELSE fresh
        opt   == IF ck # NoneV THEN ck.optimizer_state_dict ELSE 0
    IN  LoopTest([tr EXCEPT !.status = "RUNNING", !.model = model, !.opt = opt,
                            !.start_epoch = StartEpoch(ck), !.epoch = StartEpoch(ck),
                            !.cycles = 0], d)

\* lines 273-287: one pass over train_dl; w is what the optimizer steps leave
TrainingPass(tr, w) ==
    [tr EXCEPT !.model.weights = w, !.opt = @ + 1, !.pos = "validate"]

\* lines 290-307: one pass over val_dl, yielding the averaged loss
ValidationPass(tr, loss) ==
    [tr EXCEPT !.val_loss = loss, !.pos = "report"]

\* a variant of lines 309-314 that stamps the checkpoint with the epoch train
\* started at in place of the epoch just run
CheckpointDataFirst(tr) ==
    [k |-> "ckpt", epoch |-> tr.start_epoch,
     net_state_dict |-> StateDict(tr.model.weights),
     optimizer_state_dict |-> tr.opt]

\* lines 309-314
CheckpointData(tr) ==
    [k |-> "ckpt", epoch |-> tr.epoch,
     net_state_dict |-> StateDict(tr.model.weights),
     optimizer_state_dict |-> tr.opt]

Min(a, b) == IF a < b THEN a ELSE b

\* lines 317-320: session.report hands the loss and the checkpoint to the
\* driver and blocks until the driver answers
SessionReport(tr) ==
    [tr EXCEPT !.last_loss = tr.val_loss,
               !.checkpoint = CheckpointData(tr),
               !.iters = @ + 1,
               !.cycles = @ + 1,
               !.best = IF @ = NoLoss THEN tr.val_loss ELSE Min(@, tr.val_loss),
               !.val_loss = NoLoss,
               !.pos = "blocked"]

\* an exception leaves train: the trial ends in ERROR
Raised(tr) == Ended(tr, "ERROR")

\* the driver lets the trial go on: session.report returns, next epoch
Continued(tr, d) == LoopTest([tr EXCEPT !.epoch = @ + 1], d)

\* the driver stops the trial (the scheduler's STOP)
Stopped(tr) == Ended(tr, "STOPPED")

\* the driver pauses the trial; train is left as on a stop
Paused(tr) == Ended(tr, "PAUSED")

\* the driver restores a paused trial: train is called anew, and
\* session.get_checkpoint() gives the checkpoint the trial reported last
Resumed(tr) ==
    [tr EXCEPT !.status = "PENDING", !.pos = "start",
               !.session_ckpt = tr.checkpoint, !.resumes = @ + 1]

Terminal(tr) == tr.status \in {"COMPLETED", "STOPPED", "ERROR"}

(***************************************************************************)
(* The manager: set_parameters, fit, predict                               *)
(***************************************************************************)
IsStateDict(p) == "linear1.weight" \in DOMAIN p

\* the configurations the trials of a modelled tune.run are sampled from
TrialConfigs ==
    {c \in SearchSpace : c.hidden_size = 128 /\ c.dropout = 10 /\ c.lr = 1
                         /\ c.bn = "bn"}

\* the configuration tune.run samples for its t-th trial: the draws are
\* random and independent of everything else; the model fixes them so that
\* neighbouring trials differ
SampledConfig(t) ==
    CHOOSE c \in TrialConfigs : c.use_bn = (IF t % 2 = 1 THEN StrV("False") ELSE StrV("True"))

\* a scaler and a fitted network as a persisted artifact holds them
ArtifactScaler == [k |-> "scaler", mean |-> 0, scale |-> 1]
ArtifactNets(d) ==
    {[BuildNetwork(c, d, w) EXCEPT !.training = FALSE] :
        c \in {x \in TrialConfigs : x.use_bn = StrV("True")},
        w \in {0}}

\* the keyword arguments set_parameters is called with
ParameterSets(d) ==
    {StateDict(w) : w \in Weights}
    \cup {("mdl" :> m @@ "scaler" :> ArtifactScaler) : m \in ArtifactNets(d)}

Entry(op, res) == [op |-> op, res |-> res]

NumFits(h) == Cardinality({i \in 1..Len(h) : h[i].op = "fit"})

\* set_parameters (lines 326-330)
SetParameters(parameters) ==
    /\ pc = "idle" /\ outcome = "ok" /\ Len(hist) < MaxOps
    /\ IF IsStateDict(parameters)
       THEN /\ param' = parameters
            /\ UNCHANGED <<self, mdl, scaler>>
       ELSE /\ self' = [a \in Attrs |->
                          IF a \in DOMAIN parameters THEN parameters[a] ELSE self[a]]
            /\ mdl' = IF "mdl" \in DOMAIN parameters THEN parameters["mdl"] ELSE mdl
            /\ scaler' = IF "scaler" \in DOMAIN parameters
                         THEN parameters["scaler"] ELSE scaler
            /\ UNCHANGED param
    /\ hist' = Append(hist, Entry("set_parameters", "ok"))
    /\ UNCHANGED <<kwargs, outcome, stats, pc, df, trials, fit_result, pred_result,
                   call, ret>>

\* fit up to the point tune.run has created its trials (lines 343-374).
\* The scaler is stored before the iterators are built; the iterators need
\* self.batch_size to be a positive int.
FitStart(table) ==
    /\ pc = "idle" /\ outcome = "ok" /\ Len(hist) < MaxOps
    /\ NumFits(hist) < MaxFits
    /\ self["num_epochs"].k = "int" /\ self["num_epochs"].n <= MaxEpochs
    /\ scaler' = StandardScalerFit(ColX(TrainRows(table)))
    /\ df' = table
    /\ IF self["batch_size"].k = "int" /\ self["batch_size"].n > 0
       THEN /\ trials' = [t \in 1..NumTrials |-> NewTrial(NoneV, NoneV)]
            /\ pc' = "tune"
            /\ fit_result' = NoneV
            /\ hist' = Append(hist, Entry("fit", "running"))
       ELSE /\ fit_result' = [exc |-> "AttributeError"]
            /\ hist' = Append(hist, Entry("fit", "raised"))
            /\ UNCHANGED <<trials, pc>>
    /\ UNCHANGED <<kwargs, outcome, self, mdl, param, stats, pred_result, call, ret>>

(***************************************************************************)
(* tune.run: the trials and the driver                                     *)
(***************************************************************************)
TrialStep(t, tr) ==
    /\ trials' = [trials EXCEPT ![t] = tr]
    /\ UNCHANGED <<kwargs, outcome, self, mdl, scaler, param, stats, pc, df,
                   fit_result, pred_result, hist, call, ret>>

\* a pending trial is given its sampled configuration and starts train
TrialStart(t) ==
    /\ pc = "tune" /\ trials[t].status = "PENDING"
    /\ \E w0 \in Weights :
          TrialStep(t, TrainBegin([trials[t] EXCEPT !.config = SampledConfig(t)],
                                  self, w0))

TrainEpoch(t) ==
    /\ pc = "tune" /\ trials[t].status = "RUNNING" /\ trials[t].pos = "train"
    /\ \E w \in Weights : TrialStep(t, TrainingPass(trials[t], w))

ValidateEpoch(t) ==
    /\ pc = "tune" /\ trials[t].status = "RUNNING" /\ trials[t].pos = "validate"
    /\ \E loss \in Losses : TrialStep(t, ValidationPass(trials[t], loss))

Report(t) ==
    /\ pc = "tune" /\ trials[t].status = "RUNNING" /\ trials[t].pos = "report"
    /\ TrialStep(t, SessionReport(trials[t]))

\* an exception in the forward or backward pass, or in the metrics of a
\* validation batch
TrialFail(t) ==
    /\ pc = "tune" /\ trials[t].status = "RUNNING"
    /\ trials[t].pos \in {"train", "validate"}
    /\ TrialStep(t, Raised(trials[t]))

\* the scheduler's answer to a report: CONTINUE, unless max_t is reached
SchedulerContinue(t) ==
    /\ pc = "tune" /\ trials[t].status = "RUNNING" /\ trials[t].pos = "blocked"
    /\ trials[t].iters < max_t
    /\ TrialStep(t, Continued(trials[t], self))

\* the scheduler's answer to a report: STOP
SchedulerStop(t) ==
    /\ pc = "tune" /\ trials[t].status = "RUNNING" /\ trials[t].pos = "blocked"
    /\ TrialStep(t, Stopped(trials[t]))

\* a variant of line 376 that compares trials by the lowest loss they ever
\* reported (scope "min" in place of "last")
ScopeBest(tr) == tr.best

\* the loss get_best_trial("loss", "min", "last") compares trials by (line 376)
ScopeLast(tr) == tr.last_loss

\* result.get_best_trial("loss", "min", "last"): the first trial, among those
\* that reported a loss, whose compared loss no other undercuts; 0 stands for
\* None, when no trial reported
BestTrial(trs) ==
    LET cand == {t \in DOMAIN trs : trs[t].last_loss # NoLoss}
        mins == {t \in cand : \A u \in cand : ScopeLast(trs[t]) <= ScopeLast(trs[u])}
    IN  IF mins = {} THEN 0 ELSE CHOOSE t \in mins : \A u \in mins : t <= u

\* tune.run returns once no trial is pending or running
TuneOver == pc = "tune" /\ \A t \in DOMAIN trials : Terminal(trials[t])

\* tune.run (raise_on_failed_trial left at its default) raises TuneError when
\* a trial ended in ERROR
TuneRaises(trs) == \E t \in DOMAIN trs : trs[t].status = "ERROR"

SetLast(h, res) == [h EXCEPT ![Len(h)].res = res]

\* fit, when tune.run raises (line 368): the exception leaves fit
FitRaise ==
    /\ TuneOver /\ TuneRaises(trials)
    /\ pc' = "idle"
    /\ fit_result' = [exc |-> "TuneError"]
    /\ hist' = SetLast(hist, "raised")
    /\ UNCHANGED <<kwargs, outcome, self, mdl, scaler, param, stats, df, trials,
                   pred_result, call, ret>>

\* lines 381-386: the network rebuilt from the best trial's configuration,
\* holding the weights of its checkpoint, in evaluation mode
BestModel(best, d) ==
    [LoadStateDict(BuildNetwork(best.config, d, 0), best.checkpoint.net_state_dict)
     EXCEPT !.training = FALSE]

\* the value fit returns under 'predicted' (line 401)
FitPredicted(y_pred) == y_pred

\* fit from the return of tune.run to its own return (lines 376-422)
FitFinish ==
    /\ TuneOver /\ ~TuneRaises(trials)
    /\ pc' = "idle"
    /\ LET b == BestTrial(trials) IN
       IF b = 0
       THEN /\ fit_result' = [exc |-> "AttributeError"]
            /\ hist' = SetLast(hist, "raised")
            /\ UNCHANGED <<mdl, stats, param>>
       ELSE LET m      == BestModel(trials[b], self)
                y_pred == Forward(m, Transform(scaler, ColX(df)))
                st     == get_all_stats(y_pred, ColY(df), Truthy(self["classification"]))
            IN  /\ mdl' = m
                /\ IF st.exc # "none"
                   THEN /\ fit_result' = [exc |-> st.exc]
                        /\ hist' = SetLast(hist, "raised")
                        /\ UNCHANGED <<stats, param>>
                   ELSE /\ stats' = st.dict
                        /\ param' = trials[b].checkpoint.net_state_dict
                        /\ fit_result' =
                              [exc |-> "none", predicted |-> FitPredicted(y_pred),
                               model |-> m, stats |-> st.dict,
                               best_params |-> trials[b].checkpoint.net_state_dict,
                               scaler |-> scaler, table |-> df, best_trial |-> b]
                        /\ hist' = SetLast(hist, "ok")
    /\ UNCHANGED <<kwargs, outcome, self, scaler, df, trials, pred_result, call, ret>>

\* a variant of line 436 that returns the scores for both tasks
PredictReturnScores(d, y_pred) == y_pred

\* line 436: what predict returns for the scores y_pred
PredictReturn(d, y_pred) ==
    IF d["task"] = StrV("Regression") THEN y_pred ELSE Threshold(y_pred)

\* a variant of predict that would not need a state dict to load
CanPredictUnloaded(sc, m, p) == sc # NoneV /\ m # NoneV

\* predict can run: it has a scaler to transform with (line 427), a network
\* to load into and a state dict to load (lines 430-431)
CanPredict(sc, m, p) == sc # NoneV /\ m # NoneV /\ p # NoneV

\* which of scaler, network and weights the manager holds
Had == [scaler |-> scaler # NoneV, mdl |-> mdl # NoneV, param |-> param # NoneV]

\* predict (lines 424-436); `had` records what the manager held at the call
Predict(table) ==
    /\ pc = "idle" /\ outcome = "ok" /\ Len(hist) < MaxOps
    /\ IF ~CanPredict(scaler, mdl, param)
       THEN /\ pred_result' = [exc |-> IF param = NoneV /\ scaler # NoneV /\ mdl # NoneV
                                       THEN "TypeError" ELSE "AttributeError",
                               had |-> Had]
            /\ hist' = Append(hist, Entry("predict", "raised"))
            /\ UNCHANGED mdl
       ELSE LET m == [LoadStateDict(mdl, param) EXCEPT !.training = FALSE] IN
            /\ mdl' = m
            /\ pred_result' =
                  [exc |-> "none", had |-> Had, table |-> table,
                   value |-> PredictReturn(self, Forward(m, Transform(scaler, ColX(table))))]
            /\ hist' = Append(hist, Entry("predict", "ok"))
    /\ UNCHANGED <<kwargs, outcome, self, scaler, param, stats, pc, df, trials,
                   fit_result, call, ret>>

(***************************************************************************)
(* The manager's life: constructed, then any calls, one at a time          *)
(***************************************************************************)
\* __init__ keeps the value of num_epoches only when the keyword num_epochs
\* is given too (line 173 tests for that name): the keyword arguments that
\* construct a manager of n epochs
EpochsKw(n) == << <<"num_epoches", IntV(n)>>, <<"num_epochs", IntV(n)>> >>

TaskKw == << <<"task", StrV("Classification")>> >>

KwargsOfEpochs(n) == {EpochsKw(n), TaskKw \o EpochsKw(n)}

\* the managers of the lifecycle: the default one, and both tasks on
\* LifecycleEpochs epochs
LifecycleKwargs == {<<>>} \cup KwargsOfEpochs(LifecycleEpochs)

Constructed(kw) ==
    /\ kwargs = kw
    /\ outcome = InitResult(kw).exc
    /\ self = InitResult(kw).d
    /\ mdl = NoneV /\ scaler = NoneV /\ stats = NoneV /\ param = NoneV
    /\ pc = "idle" /\ df = <<>> /\ trials = <<>>
    /\ fit_result = NoneV /\ pred_result = NoneV /\ hist = <<>>

Init ==
    /\ \E kw \in LifecycleKwargs : Constructed(kw)
    /\ call = NoneV /\ ret = NoneV

Next ==
    \/ \E p \in ParameterSets(self) : SetParameters(p)
    \/ \E table \in Tables : FitStart(table)
    \/ \E t \in DOMAIN trials : TrialStart(t)
    \/ \E t \in DOMAIN trials : TrainEpoch(t)
    \/ \E t \in DOMAIN trials : ValidateEpoch(t)
    \/ \E t \in DOMAIN trials : Report(t)
    \/ \E t \in DOMAIN trials : TrialFail(t)
    \/ \E t \in DOMAIN trials : SchedulerContinue(t)
    \/ \E t \in DOMAIN trials : SchedulerStop(t)
    \/ FitRaise
    \/ FitFinish
    \/ \E table \in Tables : Predict(table)

Spec == Init /\ [][Next]_vars

(***************************************************************************)
(* One tune.run, from the moment fit has created its trials                *)
(***************************************************************************)
\* the manager constructed on kw, at the start of fit(table)
InTune(kw, table) ==
    /\ kwargs = kw
    /\ outcome = InitResult(kw).exc
    /\ self = InitResult(kw).d
    /\ mdl = NoneV /\ stats = NoneV /\ param = NoneV
    /\ scaler = StandardScalerFit(ColX(TrainRows(table)))
    /\ pc = "tune" /\ df = table
    /\ trials = [t \in 1..NumTrials |-> NewTrial(NoneV, NoneV)]
    /\ fit_result = NoneV /\ pred_result = NoneV
    /\ hist = <<Entry("fit", "running")>>

InitTune ==
    /\ \E n \in 1..MaxEpochs : \E kw \in KwargsOfEpochs(n), table \in Tables :
          InTune(kw, table)
    /\ call = NoneV /\ ret = NoneV

NextTune ==
    \/ \E t \in DOMAIN trials : TrialStart(t)
    \/ \E t \in DOMAIN trials : TrainEpoch(t)
    \/ \E t \in DOMAIN trials : ValidateEpoch(t)
    \/ \E t \in DOMAIN trials : Report(t)
    \/ \E t \in DOMAIN trials : TrialFail(t)
    \/ \E t \in DOMAIN trials : SchedulerContinue(t)
    \/ \E t \in DOMAIN trials : SchedulerStop(t)
    \/ FitRaise
    \/ FitFinish

SpecTune == InitTune /\ [][NextTune]_vars

(***************************************************************************)
(* Construction alone: __init__ on any keyword arguments                   *)
(***************************************************************************)
MaxKw == 2                        \* keyword arguments of one construction

IntOptions == {"gpu", "cpu", "bs", "num_epoches"}
KwKeys     == valid_parameters \cup {"batch_size", "num_epochs", "lr"}

ValuesFor(key) ==
    CASE key = "task" ->
            {StrV("Classification"), StrV("Regression"), StrV("Clustering")}
      [] key \in IntOptions ->
            {IntV(2), IntV(3), NumStrV(4), StrV("two"), FloatV(2), NoneV}
      [] OTHER -> {IntV(7)}

KwPairs == {<<key, v>> : key \in KwKeys, v \in UNION {ValuesFor(x) : x \in KwKeys}}

KwargsSets ==
    {kw \in UNION {[1..n -> KwPairs] : n \in 0..MaxKw} :
        /\ \A i \in 1..Len(kw) : kw[i][2] \in ValuesFor(kw[i][1])
        /\ \A i, j \in 1..Len(kw) : i # j => kw[i][1] # kw[j][1]}

InitConstruct ==
    /\ kwargs \in KwargsSets
    /\ outcome = "pending" /\ self = EmptyDict
    /\ mdl = NoneV /\ scaler = NoneV /\ stats = NoneV /\ param = NoneV
    /\ pc = "new" /\ df = <<>> /\ trials = <<>>
    /\ fit_result = NoneV /\ pred_result = NoneV /\ hist = <<>>
    /\ call = NoneV /\ ret = NoneV

\* MLPTorchModel(predictors, to_predict, key_var, **kwargs), lines 107-193
Construct ==
    /\ outcome = "pending"
    /\ outcome' = InitResult(kwargs).exc
    /\ self' = InitResult(kwargs).d
    /\ mdl' = NoneV /\ scaler' = NoneV /\ stats' = NoneV /\ param' = NoneV
    /\ pc' = "idle"
    /\ UNCHANGED <<kwargs, df, trials, fit_result, pred_result, hist, call, ret>>

SpecInit == InitConstruct /\ [][Construct]_vars

(***************************************************************************)
(* One trial under a session that may hold a checkpoint, with a driver     *)
(* that may pause and restore it                                           *)
(***************************************************************************)
\* the checkpoints train writes with num_epochs = n: after epoch e the
\* optimizer has stepped through e + 1 epochs
CheckpointsOf(n) ==
    {[k |-> "ckpt", epoch |-> e, net_state_dict |-> StateDict(w),
      optimizer_state_dict |-> e + 1] : e \in 0..(n - 1), w \in Weights}

InitTrial ==
    /\ \E n \in 1..MaxTrialEpochs : \E kw \in KwargsOfEpochs(n) :
         /\ kwargs = kw
         /\ outcome = InitResult(kw).exc
         /\ self = InitResult(kw).d
         /\ \E ck \in {NoneV} \cup CheckpointsOf(n) :
               trials = [t \in {1} |-> NewTrial(NoneV, ck)]
    /\ mdl = NoneV /\ scaler = NoneV /\ stats = NoneV /\ param = NoneV
    /\ pc = "tune" /\ df = <<>>
    /\ fit_result = NoneV /\ pred_result = NoneV
    /\ hist = <<Entry("fit", "running")>>
    /\ call = NoneV /\ ret = NoneV

DriverPause(t) ==
    /\ pc = "tune" /\ trials[t].status = "RUNNING" /\ trials[t].pos = "blocked"
    /\ trials[t].resumes < MaxResumes
    /\ TrialStep(t, Paused(trials[t]))

DriverResume(t) ==
    /\ pc = "tune" /\ trials[t].status = "PAUSED"
    /\ TrialStep(t, Resumed(trials[t]))

NextTrial ==
    \/ \E t \in DOMAIN trials : TrialStart(t)
    \/ \E t \in DOMAIN trials : TrainEpoch(t)
    \/ \E t \in DOMAIN trials : ValidateEpoch(t)
    \/ \E t \in DOMAIN trials : Report(t)
    \/ \E t \in DOMAIN trials : TrialFail(t)
    \/ \E t \in DOMAIN trials : SchedulerContinue(t)
    \/ \E t \in DOMAIN trials : SchedulerStop(t)
    \/ \E t \in DOMAIN trials : DriverPause(t)
    \/ \E t \in DOMAIN trials : DriverResume(t)

SpecTrial == InitTrial /\ [][NextTrial]_vars

(***************************************************************************)
(* The network alone: built for any configuration of the search space      *)
(***************************************************************************)
InitNet ==
    /\ \E kw \in LifecycleKwargs : Constructed(kw)
    /\ call \in [config : SearchSpace, X : {<<0, 1>>}]
    /\ ret = NoneV

\* the network built as train builds it (line 248)
NetBuild ==
    /\ ret = NoneV
    /\ \E w0 \in Weights :
          ret' = [net |-> BuildNetwork(call.config, self, w0), layers |-> <<>>,
                  out |-> <<>>]
    /\ UNCHANGED <<mgrVars, call>>

\* one forward pass of the built network in evaluation mode
NetForward ==
    /\ ret # NoneV /\ ret.layers = <<>>
    /\ ret' = [ret EXCEPT !.layers = ForwardLayers(ret.net),
                           !.out = Forward(ret.net, call.X)]
    /\ UNCHANGED <<mgrVars, call>>

SpecNet == InitNet /\ [][NetBuild \/ NetForward]_vars

(***************************************************************************)
(* The metrics evaluator alone: get_all_stats on any batch                 *)
(***************************************************************************)
MaxBatch == 3                     \* samples of one evaluated batch
Scores   == {2, 7}                \* predicted scores, in tenths
Labels   == {0, Unit}             \* ground-truth values, in tenths

InitStats ==
    /\ \E kw \in LifecycleKwargs : Constructed(kw)
    /\ \E n \in 1..MaxBatch :
          call \in [y_hat : [1..n -> Scores], y : [1..n -> Labels]]
    /\ ret = NoneV

\* get_all_stats as train (line 303) and fit (line 391) call it
StatsCall ==
    /\ ret = NoneV
    /\ ret' = get_all_stats(call.y_hat, call.y, Truthy(self["classification"]))
    /\ UNCHANGED <<mgrVars, call>>

SpecStats == InitStats /\ [][StatsCall]_vars

(***************************************************************************)
(* Properties                                                              *)
(***************************************************************************)
Last(h) == h[Len(h)]

NoSuccessfulFit(h) == \A i \in 1..Len(h) : ~(h[i].op = "fit" /\ h[i].res = "ok")

NoSetParameters(h) == \A i \in 1..Len(h) : h[i].op # "set_parameters"

\* C1, as claimed: after any calls among which no fit succeeded, predict ends
\* in an error and returns nothing.
C1_PredictNeedsFit ==
    (hist # <<>> /\ Last(hist).op = "predict" /\ NoSuccessfulFit(hist))
        => Last(hist).res = "raised"

\* C1, amended: predict ends in an error whenever the manager lacks its
\* scaler, its network or its stored weights at the call; that is so for a
\* freshly constructed manager, and after any fit and predict calls among
\* which no fit succeeded, as long as set_parameters was not called.
C1_PredictNeedsState ==
    /\ (pred_result # NoneV
            /\ ~(pred_result.had.scaler /\ pred_result.had.mdl /\ pred_result.had.param))
          => pred_result.exc # "none"
    /\ (hist # <<>> /\ Last(hist).op = "predict" /\ NoSuccessfulFit(hist)
            /\ NoSetParameters(hist))
          => (Last(hist).res = "raised" /\ pred_result.exc # "none")

\* C1, witness: predict has raised after a fit that failed, on a manager that
\* the failed fit left with a scaler
C1_Witness ==
    /\ Len(hist) = 2
    /\ hist[1] = Entry("fit", "raised")
    /\ hist[2] = Entry("predict", "raised")
    /\ pred_result.had.scaler /\ ~pred_result.had.param

\* the last two calls were a successful fit and a successful predict on the
\* table of that fit
FitThenPredict ==
    /\ Len(hist) >= 2
    /\ hist[Len(hist) - 1] = Entry("fit", "ok")
    /\ hist[Len(hist)] = Entry("predict", "ok")
    /\ pred_result.table = fit_result.table

\* C6, as claimed: for both tasks, predict on the table of the fit returns
\* exactly what fit returned under 'predicted'.
C6_RoundTrip == FitThenPredict => pred_result.value = fit_result.predicted

\* C6, amended: predict on the table of the fit returns what fit returned
\* under 'predicted' for Regression, and those scores thresholded at 0.5
\* (1 from 0.5 on, else 0) for Classification.
C6_RoundTripByTask ==
    FitThenPredict =>
        pred_result.value =
            IF self["task"] = StrV("Regression") THEN fit_result.predicted
            ELSE [i \in 1..Len(fit_result.predicted) |->
                    IF fit_result.predicted[i] >= Half THEN Unit ELSE 0]

\* C6, witness: a Classification round trip whose labels differ from the
\* scores fit returned
C6_Witness ==
    /\ FitThenPredict
    /\ self["task"] = StrV("Classification")
    /\ pred_result.value # fit_result.predicted

\* the value keyword `key` was given at construction
Supplied(key) == (CHOOSE i \in 1..Len(kwargs) : kwargs[i][1] = key)

ValueOf(key) == kwargs[Supplied(key)][2]

\* the attribute that holds the quantity an integer option names: the
\* resources of a trial (line 370), the batch size of the iterators (lines
\* 357-358), the end of the epoch loop (line 271)
QuantityOf(key) ==
    CASE key = "gpu"         -> "gpu"
      [] key = "cpu"         -> "cpu"
      [] key = "bs"          -> "batch_size"
      [] key = "num_epoches" -> "num_epochs"

DefaultOf(key) ==
    CASE key = "gpu"         -> IntV(DefaultGpu)
      [] key = "cpu"         -> IntV(DefaultCpu)
      [] key = "bs"          -> IntV(DefaultBatchSize)
      [] key = "num_epoches" -> IntV(DefaultNumEpochs)

\* C2, as claimed: a non-integer value given for gpu, cpu, bs or num_epoches
\* does not make construction raise, the quantity the option names is unset
\* or at its default, and the value is stored nowhere in the manager.
C2_NonIntegerIgnored ==
    outcome # "pending" =>
        \A key \in IntOptions \cap Keys(kwargs) :
            ValueOf(key).k # "int" =>
                /\ outcome = "ok"
                /\ self[QuantityOf(key)] \in {Unset, DefaultOf(key)}
                /\ \A a \in Attrs : self[a] # ValueOf(key)

\* C3, as claimed: an integer given for gpu, cpu, bs or num_epoches is the
\* value of the quantity the option names, whatever else is given and in
\* whatever order; an option that is not given leaves its default.
C3_IntegerOptionsApplied ==
    outcome = "ok" =>
        \A key \in IntOptions :
            IF key \in Keys(kwargs)
            THEN ValueOf(key).k = "int" => self[QuantityOf(key)] = ValueOf(key)
            ELSE self[QuantityOf(key)] = DefaultOf(key)

\* the keyword arguments ahead of `task` all convert, so that the loop of
\* __init__ reaches `task`
ReachesTask ==
    \A i \in 1..(Supplied("task") - 1) :
        kwargs[i][1] \in IntOptions => IntOf(kwargs[i][2]).exc # "TypeError"

\* C4: a task other than 'Classification' and 'Regression' makes
\* construction raise, the ValueError of line 127 whenever the loop reaches
\* the task, and leaves no manager; without a task the task is 'Regression';
\* a manager's classification flag is true exactly when its task is
\* 'Classification', and a valid task given is the manager's task.
C4_TaskChecked ==
    outcome # "pending" =>
        /\ ("task" \in Keys(kwargs)
                /\ ValueOf("task") \notin {StrV("Classification"), StrV("Regression")})
              => /\ outcome \in {"ValueError", "TypeError"}
                 /\ ReachesTask => outcome = "ValueError"
                 /\ self = EmptyDict
        /\ (outcome = "ok" /\ "task" \notin Keys(kwargs))
              => self["task"] = StrV("Regression")
        /\ (outcome = "ok" /\ "task" \in Keys(kwargs))
              => self["task"] = ValueOf("task")
        /\ outcome = "ok"
              => self["classification"] = BoolV(self["task"] = StrV("Classification"))

\* C4, witness: construction with the task 'Clustering' has raised ValueError
C4_Witness ==
    /\ outcome = "ValueError"
    /\ "task" \in Keys(kwargs)
    /\ ValueOf("task") = StrV("Clustering")

NumEpochs == self["num_epochs"].n

\* C5: train started with a checkpoint takes its first epoch from the
\* checkpoint and holds the checkpoint's network and optimizer state when it
\* enters the loop, and started without one begins at epoch 0; a train that
\* ran to its end has gone through num_epochs - k train/validate/report
\* cycles when started from a checkpoint of epoch k, and through num_epochs
\* cycles when started without a checkpoint.
C5_ResumeFromCheckpoint ==
    \A t \in DOMAIN trials :
        LET tr == trials[t]
            ck == tr.session_ckpt
        IN  /\ (tr.status = "RUNNING" /\ ck # NoneV)
                  => /\ tr.start_epoch = ck.epoch
                     /\ (tr.pos = "train" /\ tr.epoch = tr.start_epoch)
                          => /\ tr.model.weights = ck.net_state_dict["linear1.weight"]
                             /\ tr.opt = ck.optimizer_state_dict
            /\ (tr.status = "RUNNING" /\ ck = NoneV) => tr.start_epoch = 0
            /\ tr.status = "COMPLETED"
                  => tr.cycles = NumEpochs - (IF ck # NoneV THEN ck.epoch ELSE 0)

\* C5, witness: a train of 4 epochs started from a checkpoint of epoch 2 has
\* run to its end in 2 cycles
C5_Witness ==
    \E t \in DOMAIN trials :
        /\ trials[t].status = "COMPLETED"
        /\ trials[t].session_ckpt # NoneV
        /\ trials[t].session_ckpt.epoch = 2
        /\ NumEpochs = 4
        /\ trials[t].cycles = 2

FitReturned == fit_result # NoneV /\ fit_result.exc = "none"

Reported(tr) == tr.last_loss # NoLoss

\* C7: while a trial is pending or running fit has no result; the trial fit
\* takes as the winner has, among the trials that reported, a minimal last
\* reported loss, all trials being completed or stopped; the weights fit
\* loads into the network, stores for predict and returns are those of the
\* checkpoint of the winner's last report.
C7_WinnerByLastLoss ==
    /\ (\E t \in DOMAIN trials : ~Terminal(trials[t])) => fit_result = NoneV
    /\ FitReturned =>
          LET b == trials[fit_result.best_trial] IN
          /\ \A t \in DOMAIN trials : trials[t].status \in {"COMPLETED", "STOPPED"}
          /\ Reported(b)
          /\ \A t \in DOMAIN trials : Reported(trials[t]) => b.last_loss <= trials[t].last_loss
          /\ b.checkpoint.epoch = b.iters - 1
          /\ param = b.checkpoint.net_state_dict
          /\ fit_result.best_params = b.checkpoint.net_state_dict
          /\ mdl.weights = b.checkpoint.net_state_dict["linear1.weight"]
          /\ mdl = fit_result.model

\* C7, witness: fit has returned with a winner whose last loss is above a
\* loss another trial reported at an earlier epoch
C7_Witness ==
    /\ FitReturned
    /\ \E t \in DOMAIN trials :
          /\ t # fit_result.best_trial
          /\ trials[t].best < trials[fit_result.best_trial].last_loss
          /\ trials[t].last_loss > trials[fit_result.best_trial].last_loss

FitOver == pc = "idle" /\ fit_result # NoneV

\* C8, as claimed: when a trial fails, fit still succeeds with a winner among
\* the trials that did not fail as long as there is one; the failure of
\* trials makes fit fail only when all trials failed.
C8_FailureIsolated ==
    FitOver =>
        /\ (\E t \in DOMAIN trials : trials[t].status # "ERROR")
              => fit_result.exc # "TuneError"
        /\ (\A t \in DOMAIN trials : trials[t].status = "ERROR")
              => fit_result.exc # "none"

NormLayers == {"BatchNorm1d", "InstanceNorm1d"}

NormsApplied(layers) == {i \in 1..Len(layers) : layers[i] \in NormLayers}

\* C9, as claimed: the network built for a configuration has the
\* configuration's dropout probability, applies its normalisation layers in
\* the forward pass exactly when use_bn is true, and normalises by batch for
\* bn = 'bn' and by instance otherwise.
C9_NetworkUsesConfig ==
    (ret # NoneV /\ ret.layers # <<>>) =>
        /\ ret.net.dropout_p = call.config.dropout
        /\ (NormsApplied(ret.layers) # {}) <=> (call.config.use_bn = StrV("True"))
        /\ \A i \in NormsApplied(ret.layers) :
              ret.layers[i] = IF call.config.bn = "bn" THEN "BatchNorm1d"
                              ELSE "InstanceNorm1d"

PredictedPositives == {i \in 1..Len(call.y_hat) : call.y_hat[i] >= Half}
ActualPositives    == {i \in 1..Len(call.y) : call.y[i] = Unit}
ActualNegatives    == {i \in 1..Len(call.y) : call.y[i] = 0}

\* C10, as claimed: for classification, when a ratio has a zero denominator
\* (no predicted positives, no actual positives, no actual negatives, or
\* precision + recall = 0) get_all_stats raises nothing and returns its
\* mapping with NaN for that ratio.
C10_ZeroDenominatorsGiveNaN ==
    (ret # NoneV /\ Truthy(self["classification"])) =>
        /\ PredictedPositives = {}
              => (ret.exc = "none" /\ ret.dict.Precision = NaN)
        /\ ActualPositives = {}
              => (ret.exc = "none" /\ ret.dict.Recall = NaN
                    /\ ret.dict.Sensitivity = NaN)
        /\ ActualNegatives = {}
              => (ret.exc = "none" /\ ret.dict.Specificity = NaN)
        /\ PredictedPositives \cap ActualPositives = {}
              => (ret.exc = "none" /\ ret.dict.F1 = NaN)

\* the positions one epoch of train goes through, in order: the training pass,
\* the validation pass, the report, and the wait for the driver's answer,
\* after which the next epoch begins
EpochOrder ==
    {<<"train", "validate">>, <<"validate", "report">>, <<"report", "blocked">>,
     <<"blocked", "train">>}

\* the trial has reported the epoch it is in, with a checkpoint of that epoch
ReportedEpoch(tr) ==
    /\ tr.pos = "blocked"
    /\ tr.checkpoint # NoneV
    /\ tr.checkpoint.epoch = tr.epoch

\* C11: with several trials running at once, a running trial is stopped only
\* while it waits at its report, having trained, validated and reported the
\* epoch it is in with a checkpoint whose epoch index is that epoch; it starts
\* the next epoch only from there too; its positions follow the order train,
\* validate, report; and no trial in its training or validation pass is
\* stopped.
C11_StopAtEpochBoundary ==
    [][\A t \in DOMAIN trials :
          LET a == trials[t]
              b == trials'[t]
          IN  /\ (a.status = "RUNNING" /\ b.status = "STOPPED") => ReportedEpoch(a)
              /\ (a.status = "RUNNING" /\ b.status = "RUNNING" /\ b.epoch # a.epoch)
                    => (ReportedEpoch(a) /\ b.epoch = a.epoch + 1 /\ b.pos = "train")
              /\ (a.status = "RUNNING" /\ b.status = "RUNNING" /\ b.pos # a.pos)
                    => <<a.pos, b.pos>> \in EpochOrder
              /\ (a.status = "RUNNING" /\ a.pos = "report" /\ b.pos = "blocked")
                    => (b.checkpoint # NoneV /\ b.checkpoint.epoch = a.epoch
                          /\ b.iters = a.iters + 1)
              /\ (a.status = "RUNNING" /\ a.pos \in {"train", "validate", "report"})
                    => b.status # "STOPPED"
      ]_vars

\* C11, witness: a trial was stopped after the report of its second epoch,
\* its checkpoint being of that epoch, while another trial is in its
\* validation pass
C11_Witness ==
    \E t, u \in DOMAIN trials :
        /\ t # u
        /\ trials[t].status = "STOPPED"
        /\ trials[t].iters = 2
        /\ trials[t].checkpoint # NoneV
        /\ trials[t].checkpoint.epoch = 1
        /\ trials[u].status = "RUNNING"
        /\ trials[u].pos = "validate"

\* the trial is inside an epoch: training, validating or about to report it
InEpoch(tr) == tr.status = "RUNNING" /\ tr.pos \in {"train", "validate", "report"}

\* C12, as claimed: over any pauses and restores of a trial, each restore from
\* the checkpoint the trial reported last, the trial never is inside an epoch
\* it has reported already (its epoch index is above that of its last
\* checkpoint), and the reports it has made in all never outnumber num_epochs.
C12_NoEpochTwice ==
    \A t \in DOMAIN trials :
        /\ (InEpoch(trials[t]) /\ trials[t].checkpoint # NoneV)
              => trials[t].epoch > trials[t].checkpoint.epoch
        /\ trials[t].iters <= NumEpochs
====
